---- MODULE Spec2Model ----
(***************************************************************************)
(* Model of the keybase service orchestrator (package service, type        *)
(* Service): Run's startup sequence, the accept loop and its stopper, the  *)
(* per-connection Handle with its one-shot cleanup closure, the process-   *)
(* wide shutdown hooks, and the login / logout transitions.                *)
(***************************************************************************)
EXTENDS Integers, Sequences, FiniteSets, TLC

(***************************************************************************)
(* Bounds of the model.                                                    *)
(***************************************************************************)
\* connections the listener hands out in one run
MaxConns == 1
\* length of the protocol list of RegisterProtocols (the code lists 42; the
\* model keeps the list's shape with a shorter one)
NumProtocols == 2
\* concurrent executions of the process-wide shutdown hooks
NumRunners == 2
\* callers of Stop
NumStoppers == 2

\* OnLogin / OnLogout invocations in one run
MaxCalls == 2
\* rounds of the per-user-key background task in one run
MaxRounds == 2
\* manual wake requests made to the task in one run
MaxWakes == 2

Conns == 1..MaxConns
Protocols == 1..NumProtocols
Runners == 1..NumRunners
Stoppers == 1..NumStoppers
ExitCodes == {"OK", "RESTART"}

VARIABLES
    cfg,            \* what the environment holds for this run (see Cfgs)
    runPc,          \* Run: the statement the main goroutine is at
    runErr,         \* Run: the error it returns ("nil" when none)
    startupLog,     \* startup steps completed so far, in order
    failedStep,     \* the startup step that failed ("none" when none)
    startCh,        \* the channel made by NewService: "open" / "closed"
    startChNil,     \* d.startCh == nil
    startChCloses,  \* number of close(d.startCh) calls
    listener,       \* "none" / "open" / "closed"
    listenerCloses, \* number of l.Close() calls
    exitCode,       \* code received from stopCh ("none" before)
    gExitCode,      \* d.G().ExitCode
    stopPc,         \* Stop callers: "idle" / "sending" / "returned"
    stopCode,       \* the code each Stop caller passes
    listenPc,       \* ListenLoop goroutine: "none"/"accept"/"sending"/"exited"
    listenErr,      \* ListenLoop's result
    hooks,          \* G().ShutdownHooks, in insertion order
    hPc,            \* Handle(c): the statement its goroutine is at
    regCount,       \* protocols registered on c's server
    regErr,         \* RegisterProtocols returned an error
    shutdowners,    \* the list RegisterProtocols returned to Handle(c)
    served,         \* server.Run was started for c
    cl,             \* c's connection-closed channel (capacity 1)
    onceState,      \* c's shutdownOnce: "fresh" / "running" / "done"
    bodyRuns,       \* executions of the body of c's cleanup closure
    shutdownCalls,  \* Shutdown() calls per handler of c
    rPc,            \* hook runner: "idle" / "iter" / "inBody" / "done"
    rIdx,           \* hook runner: index of the next hook
    rCalls,         \* hook runner: the hooks it has invoked, in order
    uid,            \* d.G().Env.GetUID() (NoUID when nil)
    chatMod,        \* chat sub-loops: "nil"/"stopped"/"running"/"stopping"
    gregorInit,     \* startupGregor initialised the push client
    tgc,            \* what startupGregor's tryGregordConnect did
    gregorConn,     \* d.gregor.IsConnected()
    rekeyStarted,   \* rekeyMaster.Start() was called
    bgi,            \* d.backgroundIdentifier: NoBgi or the uid it targets
    hooksAdded,     \* the service is installed as login and logout hook
    lsPc,           \* the caller of OnLogin / OnLogout: its statement
    lsErr,          \* the error the current OnLogin / OnLogout returns
    lsReset,        \* the result of the push client's Reset in the current
                    \* OnLogin: "none" (not called) / "ok" / "failed"
    lsUid,          \* OnLogin's local variable uid
    callLog,        \* subsystem calls made by the current OnLogin / OnLogout
    calls,          \* OnLogin / OnLogout invocations so far
    lastLogin,      \* identity of the last OnLogin that returned nil, with no
                    \* OnLogout since (NoUID when there is none)
    tPc,            \* the per-user-key engine's goroutine and the loop of its
                    \* task: "none"/"spawned"/"startWait"/"round"/"sleep"/
                    \* "stopped"
    tShut,          \* the task's cancellation signal is set
    tShutAt,        \* where tPc was at the first Shutdown ("never" before)
    tCloses,        \* times the cancellation signal was closed
    tWake,          \* pending wake requests
    tWakeReqs,      \* wake requests made so far
    tRounds,        \* rounds started so far
    tReason,        \* why the last round started: "start"/"interval"/"wake"
    tResult,        \* how the last round ended: "ok"/"err"/"timeout"
    tUnit,          \* the last call of PerUserKeyBackgroundRound: what it
                    \* met, whether it ran the upgrade, what it returned
    wPc,            \* a caller of GetStartChannel: "idle"/"waiting"/"released"
    wCh             \* the channel it was handed: "none" / "ch" / "nil"

svcVars == <<runPc, runErr, startupLog, failedStep, startCh, startChCloses,
             startChNil,
             listener, listenerCloses, exitCode, gExitCode, stopPc, stopCode,
             listenPc, listenErr>>
connVars == <<hPc, regCount, regErr, shutdowners, served, cl, onceState,
              bodyRuns, shutdownCalls>>
hookVars == <<hooks, rPc, rIdx, rCalls>>
waitVars == <<wPc, wCh>>
loginVars == <<cfg, waitVars, uid, chatMod, gregorInit, tgc, gregorConn,
               rekeyStarted, bgi, hooksAdded, lsPc, lsErr, lsReset, lsUid,
               callLog, calls, lastLogin>>
\* loginVars but for the caller of GetStartChannel
restWait == <<cfg, uid, chatMod, gregorInit, tgc, gregorConn, rekeyStarted,
              bgi, hooksAdded, lsPc, lsErr, lsReset, lsUid, callLog, calls,
              lastLogin>>
taskVars == <<tPc, tShut, tShutAt, tCloses, tWake, tWakeReqs, tRounds,
              tReason, tResult, tUnit>>
vars == <<svcVars, connVars, hookVars, loginVars, taskVars>>

NoUID == "nil"
UIDs == {"alice", "bob"}
AllUIDs == UIDs \cup {NoUID}
NoBgi == "none"
ChatModules == <<"MessageDeliverer", "ConvLoader", "FetchRetrier">>
ChatModuleSet == {ChatModules[i] : i \in 1..Len(ChatModules)}

(***************************************************************************)
(* The environment of one run: the identity of the configured user         *)
(* (Env.GetUID() at startup), what startupGregor meets ("disabled": push is disabled by   *)
(* configuration or Tor mode; "offline": no connection is made;            *)
(* "online": the connection is made), two configuration flags, the         *)
(* protocols whose handler type has a Shutdown method, and what the        *)
(* login-state check of tryGregordConnect returns (the logged-in flag and  *)
(* no error, a network error or another error).                            *)
(***************************************************************************)
LoginChecks == [loggedIn : BOOLEAN, err : {"nil", "net", "other"}]

LoggedInOK == [loggedIn |-> TRUE, err |-> "nil"]

\* tryGregordConnect was not called
NoTgc == [called |-> FALSE, connect |-> FALSE, ret |-> "nil"]

\* the handler types are not part of this file: none of them, or every one,
\* has a Shutdown method
ShutdownCapableSets == {{}, Protocols}

\* with push disabled the login-state check is never made
Cfgs ==
    {c \in [configUID : AllUIDs, push : {"disabled", "offline", "online"},
            bgiDisabled : BOOLEAN, upgradePUK : BOOLEAN,
            shutdownCapable : ShutdownCapableSets, check : LoginChecks] :
        c.push = "disabled" => c.check = LoggedInOK}

\* what one call of PerUserKeyBackgroundRound meets: the upgrade flag of
\* the environment, the connectivity monitor's answer, whether the
\* per-user keyring loads and holds keys, and the result of the upgrade
\* engine if it is run
RoundInputs ==
    [enabled : BOOLEAN, connected : {"yes", "no", "unknown"},
     ringErr : BOOLEAN, hasKeys : BOOLEAN, upgrade : {"nil", "upgradeErr"}]

\* PerUserKeyBackgroundRound was not called
NoUnit ==
    [called |-> FALSE,
     in |-> [enabled |-> FALSE, connected |-> "unknown", ringErr |-> FALSE,
             hasKeys |-> FALSE, upgrade |-> "nil"],
     ran |-> FALSE, ret |-> "nil"]

(***************************************************************************)
(* NewService: the state after construction.                               *)
(***************************************************************************)
InitWith(cfgs) ==
    /\ cfg \in cfgs
    /\ runPc = "writeServiceInfo"
    /\ runErr = "nil"
    /\ startupLog = <<>>
    /\ failedStep = "none"
    /\ startCh = "open"
    /\ startChNil = FALSE
    /\ startChCloses = 0
    /\ listener = "none"
    /\ listenerCloses = 0
    /\ exitCode = "none"
    /\ gExitCode = "none"
    /\ stopPc = [s \in Stoppers |-> "idle"]
    /\ stopCode = [s \in Stoppers |-> "none"]
    /\ listenPc = "none"
    /\ listenErr = "nil"
    /\ hooks = <<>>
    /\ hPc = [c \in Conns |-> "none"]
    /\ regCount = [c \in Conns |-> 0]
    /\ regErr = [c \in Conns |-> FALSE]
    /\ shutdowners = [c \in Conns |-> <<>>]
    /\ served = [c \in Conns |-> FALSE]
    /\ cl = [c \in Conns |-> <<>>]
    /\ onceState = [c \in Conns |-> "fresh"]
    /\ bodyRuns = [c \in Conns |-> 0]
    /\ shutdownCalls = [c \in Conns |-> [p \in Protocols |-> 0]]
    /\ rPc = [r \in Runners |-> "idle"]
    /\ rIdx = [r \in Runners |-> 0]
    /\ rCalls = [r \in Runners |-> <<>>]
    /\ uid = cfg.configUID
    /\ chatMod = [m \in ChatModuleSet |-> "nil"]
    /\ gregorInit = FALSE
    /\ tgc = NoTgc
    /\ gregorConn = FALSE
    /\ rekeyStarted = FALSE
    /\ bgi = NoBgi
    /\ hooksAdded = FALSE
    /\ lsPc = "idle"
    /\ lsErr = "nil"
    /\ lsReset = "none"
    /\ lsUid = NoUID
    /\ callLog = <<>>
    /\ calls = 0
    /\ lastLogin = NoUID
    /\ tPc = "none"
    /\ tShut = FALSE
    /\ tShutAt = "never"
    /\ tCloses = 0
    /\ tWake = 0
    /\ tWakeReqs = 0
    /\ tRounds = 0
    /\ tReason = "none"
    /\ tResult = "none"
    /\ tUnit = NoUnit
    /\ wPc = "idle"
    /\ wCh = "none"

(***************************************************************************)
(* Run: the startup sequence.  Each statement of Run that can return an    *)
(* error is a step that either advances or aborts into Run's deferred      *)
(* function.                                                               *)
(***************************************************************************)
RunOrder ==
    <<"writeServiceInfo", "GetExclusiveLock", "cleanupSocketFile",
      "LocalDb.ForceOpen", "LocalChatDb.ForceOpen", "ConfigRPCServer",
      "SetupCriticalSubServices",
      "tryLogin", "hourlyChecks", "createChatModules", "startupGregor",
      "startChatModules", "addGlobalHooks", "configurePath", "configureRekey",
      "runBackgroundIdentifier", "runBackgroundPerUserKeyUpgrade",
      "identifySelf", "ListenLoopWithStopper">>

PosIn(seq, x) == CHOOSE i \in 1..Len(seq) : seq[i] = x

\* Run with the socket bound before the chat store is opened
StepAfterSwapped(step) ==
    LET order == [RunOrder EXCEPT ![5] = RunOrder[6], ![6] = RunOrder[5]]
    IN  order[PosIn(order, step) + 1]

StepAfter(step) == RunOrder[PosIn(RunOrder, step) + 1]

\* the statement succeeded: Run goes on to the next one
Advance(step) ==
    /\ runPc' = StepAfter(step)
    /\ startupLog' = Append(startupLog, step)
    /\ UNCHANGED <<runErr, failedStep>>

\* the error is recorded but Run goes on
AbortSwallowed(step) ==
    /\ runPc' = StepAfter(step)
    /\ failedStep' = step
    /\ UNCHANGED <<runErr, startupLog>>

\* the statement returned an error: Run returns it
Abort(step) ==
    /\ runPc' = "deferred"
    /\ runErr' = step
    /\ failedStep' = step
    /\ UNCHANGED startupLog

\* a statement of RunBackgroundOperations completed (none returns an error)
BgAdvance(step) ==
    /\ runPc' = StepAfter(step)
    /\ startupLog' = IF step = "identifySelf"
                     THEN Append(startupLog, "RunBackgroundOperations")
                     ELSE startupLog
    /\ UNCHANGED <<runErr, failedStep>>

restSvc == <<startCh, startChCloses, startChNil, listener, listenerCloses, exitCode,
             gExitCode, stopPc, stopCode, listenPc, listenErr>>

WriteServiceInfo ==
    /\ runPc = "writeServiceInfo"
    /\ \/ Advance("writeServiceInfo")
       \/ Abort("writeServiceInfo")
    /\ UNCHANGED <<restSvc, connVars, hookVars, loginVars,
                   taskVars>>

\* GetExclusiveLock pushes the lock-release hook once the lock is held
GetExclusiveLock ==
    /\ runPc = "GetExclusiveLock"
    /\ \/ /\ Advance("GetExclusiveLock")
          /\ hooks' = Append(hooks, <<"lock", 0>>)
       \/ /\ Abort("GetExclusiveLock")
          /\ UNCHANGED hooks
    /\ UNCHANGED <<restSvc, connVars, rPc, rIdx, rCalls, loginVars,
                   taskVars>>

CleanupSocketFile ==
    /\ runPc = "cleanupSocketFile"
    /\ \/ Advance("cleanupSocketFile")
       \/ Abort("cleanupSocketFile")
    /\ UNCHANGED <<restSvc, connVars, hookVars, loginVars,
                   taskVars>>

LocalDbForceOpen ==
    /\ runPc = "LocalDb.ForceOpen"
    /\ \/ Advance("LocalDb.ForceOpen")
       \/ Abort("LocalDb.ForceOpen")
    /\ UNCHANGED <<restSvc, connVars, hookVars, loginVars,
                   taskVars>>

LocalChatDbForceOpen ==
    /\ runPc = "LocalChatDb.ForceOpen"
    /\ \/ Advance("LocalChatDb.ForceOpen")
       \/ Abort("LocalChatDb.ForceOpen")
    /\ UNCHANGED <<restSvc, connVars, hookVars, loginVars,
                   taskVars>>

\* if d.startCh != nil { close(d.startCh) }
CloseStartCh ==
    /\ startCh' = IF startChNil THEN startCh ELSE "closed"
    /\ startChCloses' = IF startChNil THEN startChCloses
                        ELSE startChCloses + 1

\* the field keeps the closed channel
StartChKept(n) == n

\* d.startCh = nil, after the close
StartChSetNil(n) == TRUE

\* ConfigRPCServer binds the socket and closes the start channel
ConfigRPCServer ==
    /\ runPc = "ConfigRPCServer"
    /\ \/ /\ Advance("ConfigRPCServer")
          /\ listener' = "open"
          /\ CloseStartCh
          /\ startChNil' = StartChSetNil(startChNil)
       \/ /\ Abort("ConfigRPCServer")
          /\ UNCHANGED <<listener, startCh, startChCloses, startChNil>>
    /\ UNCHANGED <<listenerCloses, exitCode, gExitCode, stopPc, stopCode,
                   listenPc, listenErr, connVars, hookVars, loginVars,
                   taskVars>>

\* setupTeams and setupPVL return nil unconditionally
SetupCriticalSubServices ==
    /\ runPc = "SetupCriticalSubServices"
    /\ Advance("SetupCriticalSubServices")
    /\ UNCHANGED <<restSvc, connVars, hookVars, loginVars,
                   taskVars>>

(***************************************************************************)
(* GetStartChannel and a caller that waits on the channel it returns.      *)
(***************************************************************************)
\* return d.startCh: the field's value at the call, nil once
\* ConfigRPCServer has cleared it
GetStartChannel(nil) == IF nil THEN "nil" ELSE "ch"

\* ch := d.GetStartChannel(), then <-ch
CallGetStartChannel ==
    /\ wPc = "idle"
    /\ wCh' = GetStartChannel(startChNil)
    /\ wPc' = "waiting"
    /\ UNCHANGED <<svcVars, connVars, hookVars, restWait, taskVars>>

\* a receive completes on a closed channel; on a nil channel it never does
WaiterReleased ==
    /\ wPc = "waiting"
    /\ wCh = "ch"
    /\ startCh = "closed"
    /\ wPc' = "released"
    /\ UNCHANGED <<svcVars, connVars, hookVars, restWait, taskVars, wCh>>

(***************************************************************************)
(* Subsystem facades used by the startup operations and by OnLogin.        *)
(***************************************************************************)
\* the results Reset may have: it is called when the client is connected
ResetResults(conn) == IF conn THEN {"ok", "failed"} ELSE {"none"}

\* gregordConnect: parse the URI, Reset when already connected, Connect.
\* The outcomes: the connection state after, the error returned, the
\* calls, and Reset's result.  The statement after Reset tests err, which
\* still holds the nil of the parse: Reset's own result is dropped.
GregordConnect(conn) ==
    LET pre == IF conn THEN <<<<"Reset", "gregor">>>> ELSE <<>> IN
    {[conn |-> conn, err |-> "ParseFMPURI", ev |-> <<>>, reset |-> "none"]}
    \cup {[conn |-> TRUE, err |-> "nil",
           ev |-> pre \o <<<<"Connect", "gregor">>>>, reset |-> r] :
             r \in ResetResults(conn)}
    \cup {[conn |-> FALSE, err |-> "gregor.Connect",
           ev |-> pre \o <<<<"Connect", "gregor">>>>, reset |-> r] :
             r \in ResetResults(conn)}

\* runBackgroundIdentifierWithUID: the values d.backgroundIdentifier may
\* have afterwards (disabled, or StartOrReuseBackgroundIdentifier failed:
\* unchanged; otherwise the identifier, new or reused, targets u)
RunBackgroundIdentifierWithUID(cur, u) ==
    IF cfg.bgiDisabled THEN {cur} ELSE {cur, u}

\* startChatModules: Start of each sub-loop when the uid is set
StartChatModules(mods, u) ==
    IF u = NoUID THEN mods ELSE [m \in ChatModuleSet |-> "running"]

(***************************************************************************)
(* RunBackgroundOperations, one step per statement.                        *)
(***************************************************************************)
restLogin == <<cfg, waitVars, lsPc, lsErr, lsReset, lsUid, callLog, calls, lastLogin>>

\* tryLogin unlocks the configured user's keys; it changes no field of
\* the service
TryLogin ==
    /\ runPc = "tryLogin"
    /\ BgAdvance("tryLogin")
    /\ UNCHANGED <<restSvc, connVars, hookVars, loginVars,
                   taskVars>>

HourlyChecks ==
    /\ runPc = "hourlyChecks"
    /\ BgAdvance("hourlyChecks")
    /\ hooks' = Append(hooks, <<"hourly", 0>>)
    /\ UNCHANGED <<restSvc, connVars, rPc, rIdx, rCalls, loginVars,
                   taskVars>>

CreateChatModules ==
    /\ runPc = "createChatModules"
    /\ BgAdvance("createChatModules")
    /\ chatMod' = [m \in ChatModuleSet |-> "stopped"]
    /\ UNCHANGED <<restSvc, connVars, hookVars, uid, gregorInit, tgc, gregorConn,
                   rekeyStarted, bgi, hooksAdded, restLogin,
                   taskVars>>

\* the logged-in flag is respected whatever the error
TryGregordConnectFlagFirst(loggedIn, err) ==
    IF ~loggedIn THEN "nil"
    ELSE IF err = "other" THEN err
    ELSE "connect"

\* tryGregordConnect: what the login-state check leads to, the value
\* returned at once or "connect" for the call of gregordConnect
TryGregordConnect(loggedIn, err) ==
    IF err # "nil"
    THEN IF err # "net" THEN err ELSE "connect"
    ELSE IF ~loggedIn THEN "nil" ELSE "connect"

\* startupGregor: nothing when push is disabled; otherwise Init, the
\* reachability monitor, the default handlers and tryGregordConnect,
\* whose error is logged
StartupGregor ==
    /\ runPc = "startupGregor"
    /\ BgAdvance("startupGregor")
    /\ IF cfg.push = "disabled"
       THEN UNCHANGED <<gregorInit, tgc, gregorConn>>
       ELSE /\ gregorInit' = TRUE
            /\ LET d == TryGregordConnect(cfg.check.loggedIn, cfg.check.err)
               IN  IF d = "connect"
                   THEN \E o \in GregordConnect(gregorConn) :
                          /\ o.err = IF cfg.push = "online" THEN "nil"
                                     ELSE "gregor.Connect"
                          /\ gregorConn' = o.conn
                          /\ tgc' = [called |-> TRUE, connect |-> TRUE,
                                     ret |-> o.err]
                   ELSE /\ gregorConn' = gregorConn
                        /\ tgc' = [called |-> TRUE, connect |-> FALSE,
                                   ret |-> d]
    /\ UNCHANGED <<restSvc, connVars, hookVars, uid, chatMod, rekeyStarted,
                   bgi, hooksAdded, restLogin,
                   taskVars>>

StartChatModulesAtStartup ==
    /\ runPc = "startChatModules"
    /\ BgAdvance("startChatModules")
    /\ chatMod' = StartChatModules(chatMod, uid)
    /\ UNCHANGED <<restSvc, connVars, hookVars, uid, gregorInit, tgc, gregorConn,
                   rekeyStarted, bgi, hooksAdded, restLogin,
                   taskVars>>

AddGlobalHooks ==
    /\ runPc = "addGlobalHooks"
    /\ BgAdvance("addGlobalHooks")
    /\ hooksAdded' = TRUE
    /\ UNCHANGED <<restSvc, connVars, hookVars, uid, chatMod, gregorInit, tgc,
                   gregorConn, rekeyStarted, bgi, restLogin,
                   taskVars>>

ConfigurePath ==
    /\ runPc = "configurePath"
    /\ BgAdvance("configurePath")
    /\ UNCHANGED <<restSvc, connVars, hookVars, loginVars,
                   taskVars>>

ConfigureRekey ==
    /\ runPc = "configureRekey"
    /\ BgAdvance("configureRekey")
    /\ rekeyStarted' = TRUE
    /\ UNCHANGED <<restSvc, connVars, hookVars, uid, chatMod, gregorInit, tgc,
                   gregorConn, bgi, hooksAdded, restLogin,
                   taskVars>>

RunBackgroundIdentifier ==
    /\ runPc = "runBackgroundIdentifier"
    /\ BgAdvance("runBackgroundIdentifier")
    /\ IF uid = NoUID
       THEN bgi' = bgi
       ELSE bgi' \in RunBackgroundIdentifierWithUID(bgi, uid)
    /\ UNCHANGED <<restSvc, connVars, hookVars, uid, chatMod, gregorInit, tgc,
                   gregorConn, rekeyStarted, hooksAdded, restLogin,
                   taskVars>>

\* when the upgrade is enabled the engine is started and its Shutdown is
\* pushed as a shutdown hook
RunBackgroundPerUserKeyUpgrade ==
    /\ runPc = "runBackgroundPerUserKeyUpgrade"
    /\ BgAdvance("runBackgroundPerUserKeyUpgrade")
    /\ hooks' = IF cfg.upgradePUK THEN Append(hooks, <<"puk", 0>>) ELSE hooks
    /\ tPc' = IF cfg.upgradePUK THEN "spawned" ELSE tPc
    /\ UNCHANGED <<restSvc, connVars, rPc, rIdx, rCalls, loginVars, tShut, tShutAt,
                   tCloses, tWake, tWakeReqs, tRounds, tReason, tResult, tUnit>>

\* the statements of RunBackgroundOperations that wait for the network on
\* Run's own goroutine: tryLogin (LoginProvisionedDevice) and startupGregor
\* (tryGregordConnect: the login check and gregor.Connect)
BlockingOps == {"tryLogin", "startupGregor"}

\* such a call does not return: Run stays at that statement
BackgroundOperationBlocks ==
    /\ runPc \in BlockingOps
    /\ runPc = "startupGregor" => cfg.push # "disabled"
    /\ runPc' = "blocked"
    /\ UNCHANGED <<runErr, startupLog, failedStep, restSvc, connVars,
                   hookVars, loginVars, taskVars>>

\* go d.identifySelf()
SpawnIdentifySelf ==
    /\ runPc = "identifySelf"
    /\ BgAdvance("identifySelf")
    /\ UNCHANGED <<restSvc, connVars, hookVars, loginVars,
                   taskVars>>

(***************************************************************************)
(* ListenLoopWithStopper, Stop and ListenLoop.                             *)
(***************************************************************************)
\* go func() { ch <- d.ListenLoop(l) }()
StartListenLoop ==
    /\ runPc = "ListenLoopWithStopper"
    /\ runPc' = "stopWait"
    /\ startupLog' = Append(startupLog, "ListenLoop")
    /\ listenPc' = "accept"
    /\ UNCHANGED <<runErr, failedStep, startCh, startChCloses, startChNil, listener,
                   listenerCloses, exitCode, gExitCode, stopPc, stopCode,
                   listenErr, connVars, hookVars, loginVars,
                   taskVars>>

\* Stop(exitCode): d.stopCh <- exitCode, on an unbuffered channel
Stop(s) ==
    /\ stopPc[s] = "idle"
    /\ \E code \in ExitCodes : stopCode' = [stopCode EXCEPT ![s] = code]
    /\ stopPc' = [stopPc EXCEPT ![s] = "sending"]
    /\ UNCHANGED <<runPc, runErr, startupLog, failedStep, startCh, startChCloses, startChNil,
                   listener, listenerCloses, exitCode, gExitCode, listenPc,
                   listenErr, connVars, hookVars, loginVars,
                   taskVars>>

\* the normal exit code, whatever was sent
StopChRecvNormal(s) == "OK"

\* the value received from d.stopCh when the sender is caller s
StopChRecv(s) == stopCode[s]

\* exitCode = <-d.stopCh: the rendezvous with one Stop caller
ReceiveStop(s) ==
    /\ runPc = "stopWait"
    /\ stopPc[s] = "sending"
    /\ exitCode' = StopChRecv(s)
    /\ stopPc' = [stopPc EXCEPT ![s] = "returned"]
    /\ runPc' = "closeListener"
    /\ UNCHANGED <<runErr, startupLog, failedStep, startCh, startChCloses, startChNil,
                   listener, listenerCloses, gExitCode, stopCode, listenPc,
                   listenErr, connVars, hookVars, loginVars,
                   taskVars>>

\* l.Close()
CloseListener ==
    /\ runPc = "closeListener"
    /\ listener' = "closed"
    /\ listenerCloses' = listenerCloses + 1
    /\ runPc' = "joinLoop"
    /\ UNCHANGED <<runErr, startupLog, failedStep, startCh, startChCloses, startChNil,
                   exitCode, gExitCode, stopPc, stopCode, listenPc, listenErr,
                   connVars, hookVars, loginVars,
                   taskVars>>

\* Run returns without joining the accept loop
ChRecvNoJoin(pc) == TRUE

\* <-ch can complete only when the accept-loop goroutine is sending its
\* result
ChRecvReady(pc) == pc = "sending"

\* return exitCode, <-ch: the rendezvous with the accept-loop goroutine;
\* Run stores the pair in d.G().ExitCode and err
JoinListenLoop ==
    /\ runPc = "joinLoop"
    /\ ChRecvReady(listenPc)
    /\ listenPc' = IF listenPc = "sending" THEN "exited" ELSE listenPc
    /\ gExitCode' = exitCode
    /\ runErr' = listenErr
    /\ runPc' = "deferred"
    /\ UNCHANGED <<startupLog, failedStep, startCh, startChCloses, startChNil, listener,
                   listenerCloses, exitCode, stopPc, stopCode, listenErr,
                   connVars, hookVars, loginVars,
                   taskVars>>

\* Run's deferred function: close the start channel if it is still set
RunDeferred ==
    /\ runPc = "deferred"
    /\ CloseStartCh
    /\ runPc' = "done"
    /\ UNCHANGED <<runErr, startupLog, failedStep, startChNil, listener,
                   listenerCloses, exitCode, gExitCode, stopPc, stopCode,
                   listenPc, listenErr, connVars, hookVars, loginVars,
                   taskVars>>

\* ListenLoop returns whatever Accept returned
AcceptErrResultRaw(err) == err

\* the error ListenLoop returns for an Accept error
AcceptErrResult(err) == IF err = "closed" THEN "nil" ELSE err

\* l.Accept() returned a connection: go d.Handle(c)
Accept(c) ==
    /\ listenPc = "accept"
    /\ listener = "open"
    /\ hPc[c] = "none"
    /\ \A b \in Conns : b < c => hPc[b] # "none"
    /\ hPc' = [hPc EXCEPT ![c] = "start"]
    /\ UNCHANGED <<svcVars, regCount, regErr, shutdowners, served, cl,
                   onceState, bodyRuns, shutdownCalls,
                   hookVars, loginVars,
                   taskVars>>

\* the loop goes back to Accept unless the listener was closed
AfterAcceptErrRetry(err) == IF err = "closed" THEN "sending" ELSE "accept"

\* whatever the error, ListenLoop returns: its goroutine goes on to send
\* the result on ch
AfterAcceptErr(err) == "sending"

\* l.Accept() returned an error: the loop returns
AcceptError ==
    /\ listenPc = "accept"
    /\ \E err \in {"closed", "accept"} :
         /\ err = "closed" <=> listener = "closed"
         /\ listenErr' = AcceptErrResult(err)
         /\ listenPc' = AfterAcceptErr(err)
    /\ UNCHANGED <<runPc, runErr, startupLog, failedStep, startCh, startChCloses, startChNil,
                   listener, listenerCloses, exitCode, gExitCode, stopPc,
                   stopCode, connVars, hookVars, loginVars,
                   taskVars>>

(***************************************************************************)
(* Handle: one goroutine per accepted connection.                          *)
(***************************************************************************)
\* the list RegisterProtocols returns: its named result shutdowners is
\* never assigned, so it is the empty list whatever was registered
RegisterProtocols(n) == <<>>

\* Handle ignores the registration error
AfterRegisterIgnoreErr(err) == "serve"

\* where Handle goes after pushing the hook: it returns on a registration
\* error, and runs the server otherwise
AfterRegister(err) == IF err THEN "defer" ELSE "serve"

\* a guard that does not latch
OnceMayEnterNoLatch(st) == st \in {"fresh", "done"}

\* a flag that lets later callers through while the first still runs
OnceMayReturnEarly(st) == st \in {"running", "done"}

\* sync.Once: Do runs the function only for the first caller ...
OnceMayEnter(st) == st = "fresh"

\* ... and returns to every other caller once that run has completed
OnceMayReturn(st) == st = "done"

\* the body of the cleanup closure: Shutdown of every collected handler
CleanupBody(c) ==
    /\ bodyRuns' = [bodyRuns EXCEPT ![c] = @ + 1]
    /\ shutdownCalls' =
         [shutdownCalls EXCEPT ![c] =
            [p \in Protocols |->
               @[p] + Cardinality({i \in 1..Len(shutdowners[c]) :
                                      shutdowners[c][i] = p})]]

\* NewTransport, NewServer, AddConnection, RegisterProtocols: the loop
\* registers the protocols in order and stops at the first error
HandleStart(c) ==
    /\ hPc[c] = "start"
    /\ \E n \in 0..NumProtocols :
         /\ regCount' = [regCount EXCEPT ![c] = n]
         /\ regErr' = [regErr EXCEPT ![c] = (n < NumProtocols)]
         /\ shutdowners' = [shutdowners EXCEPT ![c] = RegisterProtocols(n)]
    /\ hPc' = [hPc EXCEPT ![c] = "push"]
    /\ UNCHANGED <<svcVars, served, cl, onceState, bodyRuns, shutdownCalls, hookVars, loginVars,
                   taskVars>>

\* the closure is pushed once for the deferred call and once for the
\* service shutdown
PushCleanupHookTwice(hs, c) == Append(Append(hs, <<"conn", c>>), <<"conn", c>>)

\* d.G().PushShutdownHook(shutdown): one more entry at the end of the list
PushCleanupHook(hs, c) == Append(hs, <<"conn", c>>)

\* defer shutdown(); PushShutdownHook(shutdown); if err != nil { return };
\* otherwise server.Run()
HandlePushHook(c) ==
    /\ hPc[c] = "push"
    /\ hooks' = PushCleanupHook(hooks, c)
    /\ hPc' = [hPc EXCEPT ![c] = AfterRegister(regErr[c])]
    /\ served' = [served EXCEPT ![c] = (AfterRegister(regErr[c]) = "serve")]
    /\ UNCHANGED <<svcVars, regCount, regErr, shutdowners, cl, onceState,
                   bodyRuns, shutdownCalls, rPc, rIdx, rCalls,
                   loginVars,
                   taskVars>>

\* cl made without a buffer
ClHasRoomUnbuffered(q) == Len(q) < 0

\* cl := make(chan error, 1): a send completes while the buffer has room
ClHasRoom(q) == Len(q) < 1

\* <-server.Run() returns; err = server.Err(); cl <- err
ServeEnds(c) ==
    /\ hPc[c] = "serve"
    /\ ClHasRoom(cl[c])
    /\ \E err \in {"EOF", "neterr"} : cl' = [cl EXCEPT ![c] = Append(@, err)]
    /\ hPc' = [hPc EXCEPT ![c] = "defer"]
    /\ UNCHANGED <<svcVars, regCount, regErr, shutdowners, served, onceState,
                   bodyRuns, shutdownCalls, hookVars,
                   loginVars,
                   taskVars>>

\* the deferred shutdown(): first caller of shutdownOnce.Do
HandleDeferEnter(c) ==
    /\ hPc[c] = "defer"
    /\ OnceMayEnter(onceState[c])
    /\ onceState' = [onceState EXCEPT ![c] = "running"]
    /\ CleanupBody(c)
    /\ hPc' = [hPc EXCEPT ![c] = "deferBody"]
    /\ UNCHANGED <<svcVars, regCount, regErr, shutdowners, served, cl,
                   hookVars, loginVars,
                   taskVars>>

HandleDeferLeave(c) ==
    /\ hPc[c] = "deferBody"
    /\ onceState' = [onceState EXCEPT ![c] = "done"]
    /\ hPc' = [hPc EXCEPT ![c] = "done"]
    /\ UNCHANGED <<svcVars, regCount, regErr, shutdowners, served, cl,
                   bodyRuns, shutdownCalls, hookVars,
                   loginVars,
                   taskVars>>

\* the deferred shutdown() when the closure has already run
HandleDeferSkip(c) ==
    /\ hPc[c] = "defer"
    /\ OnceMayReturn(onceState[c])
    /\ hPc' = [hPc EXCEPT ![c] = "done"]
    /\ UNCHANGED <<svcVars, regCount, regErr, shutdowners, served, cl,
                   onceState, bodyRuns, shutdownCalls,
                   hookVars, loginVars,
                   taskVars>>

(***************************************************************************)
(* The per-user-key background engine and its BackgroundTask.  The engine  *)
(* installs the task when it is constructed; the task's loop follows the   *)
(* component design: wait the start delay, then rounds separated by a      *)
(* sleep that ends with the interval, a wake request or the shutdown       *)
(* signal.  A timer that has not elapsed never wins over a signal that is  *)
(* already set.                                                            *)
(***************************************************************************)
\* the task is installed by the engine's Run only
TaskInstalledByRun(pc) == pc # "spawned"

\* NewPerUserKeyBackground installs the task, so that e.task.Shutdown()
\* reaches it wherever the engine's goroutine is
TaskInstalled(pc) == TRUE

\* every Shutdown closes the signal
ShutdownClosesUnguarded(shut) == 1

\* Shutdown closes the cancellation signal unless it is already closed
ShutdownCloses(shut) == IF shut THEN 0 ELSE 1

\* e.task.Shutdown()
PerUserKeyBackgroundShutdown ==
    /\ tShutAt' = IF tShutAt = "never" THEN tPc ELSE tShutAt
    /\ IF TaskInstalled(tPc)
       THEN /\ tShut' = TRUE
            /\ tCloses' = tCloses + ShutdownCloses(tShut)
       ELSE UNCHANGED <<tShut, tCloses>>

restTask == <<svcVars, connVars, hookVars, loginVars>>

\* the goroutine runs RunEngine(eng): Run starts the loop and returns, or
\* returns at once when the shutdown was already requested
EngineRun ==
    /\ tPc = "spawned"
    /\ tPc' = IF tShut THEN "stopped" ELSE "startWait"
    /\ UNCHANGED <<restTask, tShut, tShutAt, tCloses, tWake, tWakeReqs,
                   tRounds, tReason, tResult, tUnit>>

\* a round starts: the unit of work is invoked under the round limit
StartRound(reason) ==
    /\ ~tShut
    /\ tRounds < MaxRounds
    /\ tPc' = "round"
    /\ tRounds' = tRounds + 1
    /\ tReason' = reason

StartDelayElapsed ==
    /\ tPc = "startWait"
    /\ StartRound("start")
    /\ UNCHANGED <<restTask, tShut, tShutAt, tCloses, tWake, tWakeReqs,
                   tResult, tUnit>>

\* a failed round ends the loop
AfterRoundStopOnFailure(res) == IF res = "ok" THEN "sleep" ELSE "stopped"

\* whatever the round's result, the loop goes on to its sleep
AfterRound(res) == "sleep"

\* the unit of work returns nil or an error, or the round limit expires
RoundEnd ==
    /\ tPc = "round"
    /\ \E res \in {"ok", "err", "timeout"} :
         /\ tResult' = res
         /\ tPc' = AfterRound(res)
    /\ UNCHANGED <<restTask, tShut, tShutAt, tCloses, tWake, tWakeReqs,
                   tRounds, tReason, tUnit>>

\* a keyring that does not load is taken as nothing to do
PerUserKeyBackgroundRoundLoadedOnly(in) ==
    IF ~in.enabled THEN [ran |-> FALSE, ret |-> "nil"]
    ELSE IF in.connected = "no" THEN [ran |-> FALSE, ret |-> "nil"]
    ELSE IF in.ringErr \/ in.hasKeys THEN [ran |-> FALSE, ret |-> "nil"]
    ELSE [ran |-> TRUE, ret |-> in.upgrade]

\* PerUserKeyBackgroundRound: nil when the upgrade is disabled, when the
\* monitor says not connected, or when the keyring loaded and has keys;
\* otherwise the PerUserKeyUpgrade engine is run and its error returned
PerUserKeyBackgroundRound(in) ==
    IF ~in.enabled THEN [ran |-> FALSE, ret |-> "nil"]
    ELSE IF in.connected = "no" THEN [ran |-> FALSE, ret |-> "nil"]
    ELSE IF ~in.ringErr /\ in.hasKeys THEN [ran |-> FALSE, ret |-> "nil"]
    ELSE [ran |-> TRUE, ret |-> in.upgrade]

\* the round of this engine: the unit of work is PerUserKeyBackgroundRound
\* and returns within the round limit
UpgradeRound ==
    /\ tPc = "round"
    /\ \E in \in RoundInputs :
         LET o == PerUserKeyBackgroundRound(in)
             res == IF o.ret = "nil" THEN "ok" ELSE "err"
         IN  /\ tUnit' = [called |-> TRUE, in |-> in, ran |-> o.ran,
                          ret |-> o.ret]
             /\ tResult' = res
             /\ tPc' = AfterRound(res)
    /\ UNCHANGED <<restTask, tShut, tShutAt, tCloses, tWake, tWakeReqs,
                   tRounds, tReason>>

IntervalElapsed ==
    /\ tPc = "sleep"
    /\ tWake = 0
    /\ StartRound("interval")
    /\ UNCHANGED <<restTask, tShut, tShutAt, tCloses, tWake, tWakeReqs,
                   tResult, tUnit>>

\* the sleep ends on a pending wake request
WakeRound ==
    /\ tPc = "sleep"
    /\ tWake > 0
    /\ StartRound("wake")
    /\ tWake' = tWake - 1
    /\ UNCHANGED <<restTask, tShut, tShutAt, tCloses, tWakeReqs, tResult, tUnit>>

\* the shutdown signal at a wait point: the loop exits
LoopExit ==
    /\ tPc \in {"startWait", "sleep"}
    /\ tShut
    /\ tPc' = "stopped"
    /\ UNCHANGED <<restTask, tShut, tShutAt, tCloses, tWake, tWakeReqs,
                   tRounds, tReason, tResult, tUnit>>

\* every request is remembered
WakePendingUncoalesced(n) == n + 1

\* at most one pending wake request is remembered
WakePending(n) == 1

\* an external caller asks for a round now
WakeUp ==
    /\ tPc \in {"startWait", "round", "sleep"}
    /\ tWakeReqs < MaxWakes
    /\ tWakeReqs' = tWakeReqs + 1
    /\ tWake' = WakePending(tWake)
    /\ UNCHANGED <<restTask, tPc, tShut, tShutAt, tCloses, tRounds, tReason,
                   tResult, tUnit>>

(***************************************************************************)
(* The process-wide shutdown: each run calls the hooks in insertion order. *)
(* A run is requested of a service that is up: Run waits in                *)
(* ListenLoopWithStopper, which is when connections and their hooks exist. *)
(* The runs are numbered in the order they begin.                          *)
(***************************************************************************)
\* the list is walked from its last entry to its first
HookAtReversed(hs, i) == hs[Len(hs) + 1 - i]

\* the i-th hook a run invokes: the list is walked in insertion order
HookAt(hs, i) == hs[i]

\* the hook run r is at
RunnerHook(r) == HookAt(hooks, rIdx[r])

\* run r invokes the hook it is at
Invoke(r) == rCalls' = [rCalls EXCEPT ![r] = Append(@, RunnerHook(r))]

RunnerStart(r) ==
    /\ rPc[r] = "idle"
    /\ \A q \in Runners : q < r => rPc[q] # "idle"
    /\ runPc = "stopWait"
    /\ rPc' = [rPc EXCEPT ![r] = "iter"]
    /\ rIdx' = [rIdx EXCEPT ![r] = 1]
    /\ UNCHANGED <<svcVars, connVars, hooks, rCalls, loginVars,
                   taskVars>>

\* the lock, hourly-tick and per-user-key hooks; the last one calls
\* eng.Shutdown()
RunnerPlainHook(r) ==
    /\ rPc[r] = "iter"
    /\ rIdx[r] <= Len(hooks)
    /\ RunnerHook(r)[1] # "conn"
    /\ rIdx' = [rIdx EXCEPT ![r] = @ + 1]
    /\ Invoke(r)
    /\ IF RunnerHook(r)[1] = "puk"
       THEN PerUserKeyBackgroundShutdown
       ELSE UNCHANGED <<tShut, tShutAt, tCloses>>
    /\ UNCHANGED <<svcVars, connVars, hooks, rPc, loginVars, tPc, tWake,
                   tWakeReqs, tRounds, tReason, tResult, tUnit>>

\* a connection's cleanup closure, as first caller of its shutdownOnce
RunnerConnEnter(r) ==
    /\ rPc[r] = "iter"
    /\ rIdx[r] <= Len(hooks)
    /\ RunnerHook(r)[1] = "conn"
    /\ LET c == RunnerHook(r)[2] IN
         /\ OnceMayEnter(onceState[c])
         /\ onceState' = [onceState EXCEPT ![c] = "running"]
         /\ CleanupBody(c)
    /\ Invoke(r)
    /\ rPc' = [rPc EXCEPT ![r] = "inBody"]
    /\ UNCHANGED <<svcVars, hPc, regCount, regErr, shutdowners, served, cl,
                   hooks, rIdx, loginVars,
                   taskVars>>

RunnerConnLeave(r) ==
    /\ rPc[r] = "inBody"
    /\ onceState' = [onceState EXCEPT ![RunnerHook(r)[2]] = "done"]
    /\ rPc' = [rPc EXCEPT ![r] = "iter"]
    /\ rIdx' = [rIdx EXCEPT ![r] = @ + 1]
    /\ UNCHANGED <<svcVars, hPc, regCount, regErr, shutdowners, served, cl,
                   bodyRuns, shutdownCalls, hooks, rCalls, loginVars,
                   taskVars>>

\* a connection's cleanup closure when it has already run
RunnerConnSkip(r) ==
    /\ rPc[r] = "iter"
    /\ rIdx[r] <= Len(hooks)
    /\ RunnerHook(r)[1] = "conn"
    /\ OnceMayReturn(onceState[RunnerHook(r)[2]])
    /\ rIdx' = [rIdx EXCEPT ![r] = @ + 1]
    /\ Invoke(r)
    /\ UNCHANGED <<svcVars, connVars, hooks, rPc, loginVars,
                   taskVars>>

RunnerDone(r) ==
    /\ rPc[r] = "iter"
    /\ rIdx[r] > Len(hooks)
    /\ rPc' = [rPc EXCEPT ![r] = "done"]
    /\ UNCHANGED <<svcVars, connVars, hooks, rIdx, rCalls, loginVars,
                   taskVars>>

(***************************************************************************)
(* OnLogin and OnLogout.  The login state serialises logins and logouts,   *)
(* so one caller invokes the two hooks, one call at a time; the identity   *)
(* only changes between calls.  Both are exported methods and may be       *)
(* called at any moment after NewService, also while Run is starting up.   *)
(* callLog records the calls the current invocation makes on subsystems.   *)
(***************************************************************************)
restSubsys == <<cfg, waitVars, chatMod, gregorInit, tgc, gregorConn, rekeyStarted, bgi,
                hooksAdded>>

\* OnLogin without the nil check
AfterUIDNoCheck(u) == "li_chat"

\* after reading the uid OnLogin returns when it is nil
AfterUID(u) == IF u = NoUID THEN "li_ret" ELSE "li_chat"

\* a login has installed an identity; the login hook is called
CallOnLogin ==
    /\ lsPc = "idle"
    /\ calls < MaxCalls
    /\ calls' = calls + 1
    /\ uid' \in AllUIDs
    /\ lsPc' = "li_rekey"
    /\ lsErr' = "nil"
    /\ lsReset' = "none"
    /\ lsUid' = NoUID
    /\ callLog' = <<>>
    /\ UNCHANGED <<svcVars, connVars, hookVars, restSubsys, lastLogin,
                   taskVars>>

\* d.rekeyMaster.Login()
LoginRekey ==
    /\ lsPc = "li_rekey"
    /\ callLog' = Append(callLog, <<"Login", "rekeyMaster">>)
    /\ lsPc' = "li_gregor"
    /\ UNCHANGED <<svcVars, connVars, hookVars, restSubsys, uid, lsErr, lsReset,
                   lsUid, calls,
                   lastLogin,
                   taskVars>>

\* if err := d.gregordConnect(); err != nil { return err }
LoginGregordConnect ==
    /\ lsPc = "li_gregor"
    /\ \E o \in GregordConnect(gregorConn) :
         /\ gregorConn' = o.conn
         /\ callLog' = callLog \o o.ev
         /\ lsErr' = o.err
         /\ lsReset' = o.reset
         /\ lsPc' = IF o.err = "nil" THEN "li_uid" ELSE "li_ret"
    /\ UNCHANGED <<svcVars, connVars, hookVars, cfg, waitVars, chatMod, gregorInit, tgc,
                   rekeyStarted, bgi, hooksAdded, uid, lsUid, calls,
                   lastLogin,
                   taskVars>>

\* uid := d.G().Env.GetUID(); if !uid.IsNil() { ... }
LoginReadUID ==
    /\ lsPc = "li_uid"
    /\ lsUid' = uid
    /\ lsPc' = AfterUID(uid)
    /\ UNCHANGED <<svcVars, connVars, hookVars, restSubsys, uid, lsErr, lsReset,
                   callLog, calls,
                   lastLogin,
                   taskVars>>

\* d.startChatModules(): with a uid, Start of the three sub-loops in
\* order; a sub-loop that was never constructed is a nil interface, and
\* the call on it panics
LoginStartChatModules ==
    /\ lsPc = "li_chat"
    /\ IF uid = NoUID
       THEN /\ lsPc' = "li_bgi"
            /\ UNCHANGED <<chatMod, callLog>>
       ELSE IF chatMod[ChatModules[1]] = "nil"
       THEN /\ lsPc' = "panicked"
            /\ UNCHANGED <<chatMod, callLog>>
       ELSE /\ lsPc' = "li_bgi"
            /\ chatMod' = StartChatModules(chatMod, uid)
            /\ callLog' = callLog \o
                 [i \in 1..Len(ChatModules) |-> <<"Start", ChatModules[i], uid>>]
    /\ UNCHANGED <<svcVars, connVars, hookVars, cfg, waitVars, gregorInit, tgc, gregorConn,
                   rekeyStarted, bgi, hooksAdded, uid, lsErr, lsReset, lsUid, calls,
                   lastLogin,
                   taskVars>>

\* d.runBackgroundIdentifierWithUID(uid)
LoginRunBackgroundIdentifier ==
    /\ lsPc = "li_bgi"
    /\ bgi' \in RunBackgroundIdentifierWithUID(bgi, lsUid)
    /\ callLog' = Append(callLog, <<"runBackgroundIdentifierWithUID", lsUid>>)
    /\ lsPc' = "li_identify"
    /\ UNCHANGED <<svcVars, connVars, hookVars, cfg, waitVars, chatMod, gregorInit, tgc,
                   gregorConn, rekeyStarted, hooksAdded, uid, lsErr, lsReset, lsUid,
                   calls, lastLogin,
                   taskVars>>

\* go d.identifySelf(); return nil
LoginIdentifySelf ==
    /\ lsPc = "li_identify"
    /\ callLog' = Append(callLog, <<"go", "identifySelf">>)
    /\ lsPc' = "li_ret"
    /\ UNCHANGED <<svcVars, connVars, hookVars, restSubsys, uid, lsErr, lsReset,
                   lsUid, calls,
                   lastLogin,
                   taskVars>>

\* OnLogin or OnLogout has returned to the login state
HookReturn ==
    /\ lsPc \in {"li_ret", "lo_ret"}
    /\ lsPc' = "idle"
    /\ lastLogin' = IF lsPc = "lo_ret" THEN lastLogin
                    ELSE IF lsErr = "nil" THEN lsUid ELSE NoUID
    /\ UNCHANGED <<svcVars, connVars, hookVars, restSubsys, uid, lsErr, lsReset,
                   lsUid, callLog, calls,
                   taskVars>>

StopPc == <<"lo_stop1", "lo_stop2", "lo_stop3">>
WaitPc == <<"lo_wait1", "lo_wait2", "lo_wait3">>

AfterAck(i) == IF i < Len(ChatModules) THEN StopPc[i + 1] ELSE "lo_rekey"

\* the stop is requested and not awaited
AfterStopNoWait(i) == AfterAck(i)

\* <-X.Stop(ctx): after requesting a stop, stopChatModules waits for the
\* sub-loop's acknowledgement before it goes on
AfterStop(i) == WaitPc[i]

\* a logout is under way; the logout hook is called
CallOnLogout ==
    /\ lsPc = "idle"
    /\ calls < MaxCalls
    /\ calls' = calls + 1
    /\ lsPc' = "lo_gregor"
    /\ lsErr' = "nil"
    /\ lsReset' = "none"
    /\ lsUid' = NoUID
    /\ callLog' = <<>>
    /\ lastLogin' = NoUID
    /\ UNCHANGED <<svcVars, connVars, hookVars, restSubsys, uid,
                   taskVars>>

\* if d.gregor != nil { d.gregor.Shutdown() }: NewService always sets it
LogoutGregor ==
    /\ lsPc = "lo_gregor"
    /\ gregorConn' = FALSE
    /\ callLog' = Append(callLog, <<"Shutdown", "gregor">>)
    /\ lsPc' = StopPc[1]
    /\ UNCHANGED <<svcVars, connVars, hookVars, cfg, waitVars, chatMod, gregorInit, tgc,
                   rekeyStarted, bgi, hooksAdded, uid, lsErr, lsReset, lsUid, calls,
                   lastLogin,
                   taskVars>>

\* d.ChatG().X.Stop(ctx): on a sub-loop that was never constructed the
\* call is made on a nil interface and panics
LogoutStop(i) ==
    /\ lsPc = StopPc[i]
    /\ IF chatMod[ChatModules[i]] = "nil"
       THEN /\ lsPc' = "panicked"
            /\ UNCHANGED <<chatMod, callLog>>
       ELSE /\ lsPc' = AfterStop(i)
            /\ chatMod' = [chatMod EXCEPT ![ChatModules[i]] = "stopping"]
            /\ callLog' = Append(callLog, <<"Stop", ChatModules[i]>>)
    /\ UNCHANGED <<svcVars, connVars, hookVars, cfg, waitVars, gregorInit, tgc, gregorConn,
                   rekeyStarted, bgi, hooksAdded, uid, lsErr, lsReset, lsUid, calls,
                   lastLogin,
                   taskVars>>

\* the sub-loop acknowledges the stop and the receive completes
LogoutAck(i) ==
    /\ lsPc = WaitPc[i]
    /\ chatMod' = [chatMod EXCEPT ![ChatModules[i]] =
                     IF @ = "stopping" THEN "stopped" ELSE @]
    /\ callLog' = Append(callLog, <<"Ack", ChatModules[i]>>)
    /\ lsPc' = AfterAck(i)
    /\ UNCHANGED <<svcVars, connVars, hookVars, cfg, waitVars, gregorInit, tgc, gregorConn,
                   rekeyStarted, bgi, hooksAdded, uid, lsErr, lsReset, lsUid, calls,
                   lastLogin,
                   taskVars>>

\* d.rekeyMaster.Logout()
LogoutRekey ==
    /\ lsPc = "lo_rekey"
    /\ callLog' = Append(callLog, <<"Logout", "rekeyMaster">>)
    /\ lsPc' = "lo_badger"
    /\ UNCHANGED <<svcVars, connVars, hookVars, restSubsys, uid, lsErr, lsReset,
                   lsUid, calls,
                   lastLogin,
                   taskVars>>

\* if d.badger != nil { d.badger.Clear(ctx) }: NewService always sets it
LogoutBadger ==
    /\ lsPc = "lo_badger"
    /\ callLog' = Append(callLog, <<"Clear", "badger">>)
    /\ lsPc' = "lo_bgi"
    /\ UNCHANGED <<svcVars, connVars, hookVars, restSubsys, uid, lsErr, lsReset,
                   lsUid, calls,
                   lastLogin,
                   taskVars>>

\* if d.backgroundIdentifier != nil { d.backgroundIdentifier.Logout() }
LogoutBackgroundIdentifier ==
    /\ lsPc = "lo_bgi"
    /\ IF bgi = NoBgi
       THEN UNCHANGED <<bgi, callLog>>
       ELSE /\ bgi' = NoUID
            /\ callLog' = Append(callLog, <<"Logout", "backgroundIdentifier">>)
    /\ lsPc' = "lo_ret"
    /\ UNCHANGED <<svcVars, connVars, hookVars, cfg, waitVars, chatMod, gregorInit, tgc,
                   gregorConn, rekeyStarted, hooksAdded, uid, lsErr, lsReset, lsUid,
                   calls, lastLogin,
                   taskVars>>

(***************************************************************************)
(* The service: Run, the accept loop, the connections, the shutdown hooks. *)
(***************************************************************************)
RunBackgroundOperations ==
    \/ TryLogin
    \/ HourlyChecks
    \/ CreateChatModules
    \/ StartupGregor
    \/ StartChatModulesAtStartup
    \/ AddGlobalHooks
    \/ ConfigurePath
    \/ ConfigureRekey
    \/ RunBackgroundIdentifier
    \/ RunBackgroundPerUserKeyUpgrade
    \/ SpawnIdentifySelf

Startup ==
    \/ WriteServiceInfo
    \/ GetExclusiveLock
    \/ CleanupSocketFile
    \/ LocalDbForceOpen
    \/ LocalChatDbForceOpen
    \/ ConfigRPCServer
    \/ SetupCriticalSubServices

RunToListen ==
    \/ Startup
    \/ RunBackgroundOperations
    \/ BackgroundOperationBlocks
    \/ StartListenLoop
    \/ RunDeferred

Stopper ==
    \/ \E s \in Stoppers : Stop(s)
    \/ \E s \in Stoppers : ReceiveStop(s)
    \/ CloseListener
    \/ JoinListenLoop

ListenLoop ==
    \/ \E c \in Conns : Accept(c)
    \/ AcceptError

\* Handle when nothing else calls the cleanup closure: its deferred call
\* is the first caller
HandleAlone ==
    \/ \E c \in Conns : HandleStart(c)
    \/ \E c \in Conns : HandlePushHook(c)
    \/ \E c \in Conns : ServeEnds(c)
    \/ \E c \in Conns : HandleDeferEnter(c)
    \/ \E c \in Conns : HandleDeferLeave(c)

Handle ==
    \/ HandleAlone
    \/ \E c \in Conns : HandleDeferSkip(c)

ShutdownHooks ==
    \/ \E r \in Runners : RunnerStart(r)
    \/ \E r \in Runners : RunnerPlainHook(r)
    \/ \E r \in Runners : RunnerConnEnter(r)
    \/ \E r \in Runners : RunnerConnLeave(r)
    \/ \E r \in Runners : RunnerConnSkip(r)
    \/ \E r \in Runners : RunnerDone(r)

\* Run from start to return, with Stop and the connections; the shutdown
\* hooks are not run
Next ==
    \/ RunToListen
    \/ Stopper
    \/ ListenLoop
    \/ HandleAlone

\* the service with the login subsystems at rest: push disabled, no
\* restored identity, no handler with a Shutdown method
SvcCfgs ==
    {c \in Cfgs : /\ c.configUID = NoUID
                  /\ c.push = "disabled"
                  /\ c.bgiDisabled
                  /\ c.shutdownCapable = {}}

Init == InitWith(SvcCfgs)

Spec == Init /\ [][Next]_vars

\* the connections against the process-wide shutdown hooks, with handler
\* types that have a Shutdown method (RegisterProtocols returns the same
\* list without them)
ConnCfgs ==
    {c \in Cfgs : /\ c.configUID = NoUID
                  /\ c.push = "disabled"
                  /\ c.bgiDisabled
                  /\ c.upgradePUK
                  /\ c.shutdownCapable = Protocols}

InitConn == InitWith(ConnCfgs)

NextConn ==
    \/ RunToListen
    \/ ListenLoop
    \/ Handle
    \/ ShutdownHooks

SpecConn == InitConn /\ [][NextConn]_vars

OnLogin ==
    \/ CallOnLogin
    \/ LoginRekey
    \/ LoginGregordConnect
    \/ LoginReadUID
    \/ LoginStartChatModules
    \/ LoginRunBackgroundIdentifier
    \/ LoginIdentifySelf

OnLogout ==
    \/ CallOnLogout
    \/ LogoutGregor
    \/ \E i \in 1..Len(ChatModules) : LogoutStop(i)
    \/ \E i \in 1..Len(ChatModules) : LogoutAck(i)
    \/ LogoutRekey
    \/ LogoutBadger
    \/ LogoutBackgroundIdentifier

\* logins and logouts against Run's startup, for every configured
\* identity and push outcome
LoginCfgs ==
    {c \in Cfgs : /\ c.shutdownCapable = {}
                  /\ ~c.upgradePUK
                  /\ c.check = LoggedInOK}

InitLogin == InitWith(LoginCfgs)

NextLogin ==
    \/ RunToListen
    \/ OnLogin
    \/ OnLogout
    \/ HookReturn

SpecLogin == InitLogin /\ [][NextLogin]_vars

\* Run alone, for every environment, with the main goroutine scheduled
\* as long as it has a statement to execute
StartupCfgs == {c \in Cfgs : c.shutdownCapable = {}}

InitStartup == InitWith(StartupCfgs)

NextStartup == RunToListen

FairStartup ==
    /\ WF_vars(Startup)
    /\ WF_vars(RunBackgroundOperations)
    /\ WF_vars(StartListenLoop)
    /\ WF_vars(RunDeferred)

SpecStartup == InitStartup /\ [][NextStartup]_vars /\ FairStartup

BackgroundTask ==
    \/ EngineRun
    \/ StartDelayElapsed
    \/ RoundEnd
    \/ IntervalElapsed
    \/ WakeRound
    \/ LoopExit
    \/ WakeUp

\* the runs of the shutdown hooks when no connection was accepted
PlainHookRuns ==
    \/ \E r \in Runners : RunnerStart(r)
    \/ \E r \in Runners : RunnerPlainHook(r)
    \/ \E r \in Runners : RunnerDone(r)

\* the per-user-key upgrade enabled, the login subsystems at rest
TaskCfgs ==
    {c \in Cfgs : /\ c.configUID = NoUID
                  /\ c.push = "disabled"
                  /\ c.bgiDisabled
                  /\ c.upgradePUK
                  /\ c.shutdownCapable = {}}

InitTask == InitWith(TaskCfgs)

NextTask ==
    \/ RunToListen
    \/ BackgroundTask
    \/ PlainHookRuns

SpecTask == InitTask /\ [][NextTask]_vars

\* Accept on a closed listener returns its error
AcceptOnClosed == listener = "closed" /\ AcceptError

\* the service with every goroutine scheduled as long as it has a
\* statement to execute: Run, the receive from stopCh, the close of the
\* listener, the accept loop's return on a closed listener and the join
FairRun ==
    /\ FairStartup
    /\ \A s \in Stoppers : WF_vars(ReceiveStop(s))
    /\ WF_vars(CloseListener)
    /\ WF_vars(AcceptOnClosed)
    /\ WF_vars(JoinListenLoop)

SpecFair == Init /\ [][Next]_vars /\ FairRun

Waiter ==
    \/ CallGetStartChannel
    \/ WaiterReleased

\* Run and a caller of GetStartChannel, each scheduled as long as it has a
\* statement to execute
NextWait ==
    \/ RunToListen
    \/ Waiter

FairWait ==
    /\ FairStartup
    /\ WF_vars(WaiterReleased)

SpecWait == Init /\ [][NextWait]_vars /\ FairWait

\* the engine's task with PerUserKeyBackgroundRound as its unit of work
UpgradeTask ==
    \/ EngineRun
    \/ StartDelayElapsed
    \/ UpgradeRound
    \/ IntervalElapsed

NextRound ==
    \/ RunToListen
    \/ UpgradeTask

SpecRound == InitTask /\ [][NextRound]_vars

(***************************************************************************)
(* Properties.                                                             *)
(***************************************************************************)
IsPrefix(a, b) ==
    /\ Len(a) <= Len(b)
    /\ \A i \in 1..Len(a) : a[i] = b[i]

\* runner r has called the hook of connection c
Visited(r, c) ==
    \E i \in 1..Len(hooks) : hooks[i] = <<"conn", c>> /\ rIdx[r] > i

\* C1: under every interleaving of Handle's deferred call and of the runs of
\* the shutdown hooks, the body of a connection's cleanup closure never
\* runs twice and has run once when Handle has returned, so no handler's
\* Shutdown is called twice; a failed registration makes no difference.
C1_CleanupExactlyOnce ==
    \A c \in Conns :
        /\ bodyRuns[c] <= 1
        /\ \A p \in Protocols : shutdownCalls[c][p] <= 1
        /\ hPc[c] = "done" => bodyRuns[c] = 1
        /\ (\E r \in Runners : Visited(r, c)) => bodyRuns[c] = 1

\* two runs of the hooks and the deferred call have all called the closure
\* of a connection whose registration failed, and of one that was served
C1_Witness ==
    \E c \in Conns :
        /\ regErr[c]
        /\ hPc[c] = "done"
        /\ \A r \in Runners : Visited(r, c)
        /\ bodyRuns[c] = 1

\* C2: when a connection's session has ended, Shutdown has been called on
\* every handler of the connection whose type has a Shutdown method.
C2_CapableHandlersShutDown ==
    \A c \in Conns :
        hPc[c] = "done" =>
            \A p \in cfg.shutdownCapable : shutdownCalls[c][p] >= 1

\* C3: whenever Handle has returned - after a failed registration, in which
\* case the server never ran, or after the serve loop ended with EOF or an
\* error - the connection's cleanup closure has run to completion.
C3_CleanupBeforeReturn ==
    \A c \in Conns :
        hPc[c] = "done" =>
            /\ onceState[c] = "done"
            /\ bodyRuns[c] >= 1
            /\ regErr[c] => ~served[c] /\ cl[c] = <<>>
            /\ ~regErr[c] => served[c] /\ Len(cl[c]) = 1

\* Handle has returned on the three paths: registration error, EOF, and a
\* serve-loop error while a run of the hooks was inside the closure
C3_Witness ==
    \E c \in Conns :
        /\ hPc[c] = "done" /\ cl[c] = <<"neterr">>
        /\ \E r \in Runners : Visited(r, c)

\* C4: the serve loop of a connection runs only after every protocol of the
\* list was registered without error; during registration and after a
\* failed one it never runs.
C4_ServeAfterRegistration ==
    \A c \in Conns :
        /\ (served[c] \/ hPc[c] = "serve") =>
              regCount[c] = NumProtocols /\ ~regErr[c]
        /\ hPc[c] \in {"none", "start", "push"} => ~served[c]
        /\ regErr[c] => hPc[c] # "serve"

\* one connection is being served while another failed part-way through
\* the list and has returned
C4_Witness ==
    \E c \in Conns :
        /\ hPc[c] = "serve" /\ regCount[c] = NumProtocols
        /\ \E r \in Runners : rPc[r] = "iter"

ClaimedOrder ==
    <<"GetExclusiveLock", "cleanupSocketFile", "LocalDb.ForceOpen",
      "LocalChatDb.ForceOpen", "ConfigRPCServer", "SetupCriticalSubServices",
      "RunBackgroundOperations", "ListenLoop">>

ClaimedSteps == SelectSeq(startupLog, LAMBDA x : x # "writeServiceInfo")

\* C5: Run's startup steps complete in the order lock, stale socket file,
\* key-value store, chat store, socket bound, critical setup, background
\* operations, accept loop; the accept loop exists and a connection is
\* handled only when all of them have completed.
C5_StartupOrder ==
    /\ IsPrefix(ClaimedSteps, ClaimedOrder)
    /\ listenPc # "none" => ClaimedSteps = ClaimedOrder
    /\ \A c \in Conns : hPc[c] # "none" => ClaimedSteps = ClaimedOrder
    /\ listener # "none" => Len(ClaimedSteps) >= 5
    /\ runPc \in {"tryLogin", "hourlyChecks", "createChatModules"} =>
          Len(ClaimedSteps) = 6

\* the accept loop is accepting and a connection is being served
C5_Witness ==
    /\ listenPc = "accept"
    /\ \E c \in Conns : hPc[c] = "serve"
    /\ ClaimedSteps = ClaimedOrder

\* C6: when a startup step fails, Run returns that step's error, no
\* background operation has been launched, the accept loop is never
\* entered and no connection is handled.
C6_StartupFailureAborts ==
    failedStep # "none" =>
        /\ runPc \in {"deferred", "done"}
        /\ runErr = failedStep
        /\ ~(\E i \in 1..Len(startupLog) :
                startupLog[i] \in {"RunBackgroundOperations", "ListenLoop"})
        /\ ~(\E i \in 1..Len(hooks) : hooks[i][1] \in {"hourly", "puk"})
        /\ listenPc = "none"
        /\ \A c \in Conns : hPc[c] = "none"

\* Run has returned the error of the bind, the last step that can fail
C6_Witness ==
    /\ runPc = "done"
    /\ failedStep = "ConfigRPCServer"
    /\ runErr = "ConfigRPCServer"

Returned == runPc \in {"deferred", "done"} /\ exitCode # "none"

\* C7: the listener is closed at most once, only after Stop has delivered
\* an exit code, and exactly once when ListenLoopWithStopper returns; it
\* returns only when the accept loop has exited, and no connection is
\* accepted afterwards.
C7_StopClosesListenerOnce ==
    /\ [](/\ listenerCloses <= 1
          /\ listener = "closed" => exitCode # "none" /\ listenerCloses = 1
          /\ Returned => listenPc = "exited" /\ listenerCloses = 1)
    /\ [][Returned => \A c \in Conns : hPc[c] = "none" => hPc'[c] = "none"]_vars

\* Run has returned after a Stop while a connection was accepted before and
\* a second Stop is still pending
C7_Witness ==
    /\ Returned
    /\ runPc = "done"
    /\ \E c \in Conns : hPc[c] # "none"
    /\ \E s, t \in Stoppers : stopPc[s] = "returned" /\ stopPc[t] = "sending"

GregorEvs ==
    {<<>>, <<<<"Connect", "gregor">>>>,
     <<<<"Reset", "gregor">>, <<"Connect", "gregor">>>>}

\* what follows the push connect in OnLogin for identity u
LoginTail(u) ==
    IF u = NoUID THEN <<>>
    ELSE [i \in 1..Len(ChatModules) |-> <<"Start", ChatModules[i], u>>]
         \o <<<<"runBackgroundIdentifierWithUID", u>>, <<"go", "identifySelf">>>>

LoginPcs ==
    {"li_rekey", "li_gregor", "li_uid", "li_chat", "li_bgi", "li_identify",
     "li_ret"}

LogoutOrder ==
    <<<<"Shutdown", "gregor">>,
      <<"Stop", "MessageDeliverer">>, <<"Ack", "MessageDeliverer">>,
      <<"Stop", "ConvLoader">>, <<"Ack", "ConvLoader">>,
      <<"Stop", "FetchRetrier">>, <<"Ack", "FetchRetrier">>,
      <<"Logout", "rekeyMaster">>, <<"Clear", "badger">>,
      <<"Logout", "backgroundIdentifier">>>>

LogoutPcs ==
    {"lo_gregor", "lo_rekey", "lo_badger", "lo_bgi", "lo_ret"}
    \cup {StopPc[i] : i \in 1..Len(StopPc)}
    \cup {WaitPc[i] : i \in 1..Len(WaitPc)}

\* C9: the calls OnLogout makes are, in order, the push client's Shutdown,
\* Stop of MessageDeliverer, ConvLoader and FetchRetrier, each acknowledged
\* before the next call, the rekey coordinator's Logout, the badge
\* counter's Clear and the background identifier's Logout when there is
\* one; an OnLogout that returns has made all of them.
C9_LogoutOrder ==
    lsPc \in LogoutPcs =>
        /\ IsPrefix(callLog, LogoutOrder)
        /\ lsPc = "lo_ret" => Len(callLog) >= Len(LogoutOrder) - 1
        /\ (lsPc = "lo_ret" /\ bgi = NoBgi) =>
              Len(callLog) = Len(LogoutOrder) - 1

\* an OnLogout with a background identifier has returned
C9_Witness ==
    /\ lsPc = "lo_ret"
    /\ callLog = LogoutOrder

\* C10: an OnLogout invoked before createChatModules has constructed the
\* chat sub-loops does not panic.
C10_LogoutToleratesPartialStartup ==
    ~(/\ lsPc = "panicked"
      /\ callLog # <<>>
      /\ callLog[1] = <<"Shutdown", "gregor">>)

(***************************************************************************)
(* Accesses to the subsystem handles of the service.  The Service struct   *)
(* has no mutex and none of its methods takes a lock, so an access is      *)
(* protected by nothing but the order of the statements of one goroutine.  *)
(***************************************************************************)
\* the handles the statement Run's goroutine is at reads ("r") or may
\* write ("w")
RunAccesses ==
    IF runPc = "createChatModules" THEN {<<"chat", "w">>}
    ELSE IF runPc = "startupGregor" /\ cfg.push # "disabled"
         THEN {<<"reachability", "w">>}
    ELSE IF runPc = "startChatModules" /\ uid # NoUID THEN {<<"chat", "r">>}
    ELSE IF runPc = "runBackgroundIdentifier" /\ uid # NoUID
            /\ ~cfg.bgiDisabled
         THEN {<<"backgroundIdentifier", "r">>, <<"backgroundIdentifier", "w">>}
    ELSE {}

\* the same for the statement the caller of OnLogin / OnLogout is at
HookAccesses ==
    IF lsPc = "li_chat" THEN {<<"chat", "r">>}
    ELSE IF lsPc = "li_bgi" /\ ~cfg.bgiDisabled
         THEN {<<"backgroundIdentifier", "r">>, <<"backgroundIdentifier", "w">>}
    ELSE IF lsPc \in {StopPc[i] : i \in 1..Len(StopPc)} THEN {<<"chat", "r">>}
    ELSE IF lsPc = "lo_bgi" THEN {<<"backgroundIdentifier", "r">>}
    ELSE {}

\* two goroutines are each about to access the same handle, one of them
\* writing it
ConcurrentAccess ==
    \E a \in RunAccesses, b \in HookAccesses :
        a[1] = b[1] /\ "w" \in {a[2], b[2]}

\* C11: once the service is installed as login and logout hook, no read of
\* a subsystem handle is concurrent with a write of the same handle.
C11_NoConcurrentHandleAccess == ~(hooksAdded /\ ConcurrentAccess)

\* C12: an OnLogin for the identity of the previous OnLogin, with no
\* OnLogout in between, makes no Start call on the chat sub-loops and
\* leaves the background identifier as it is.
C12_SecondLoginStartsNothing ==
    [][/\ (lsPc = "li_chat" /\ lastLogin = uid /\ uid # NoUID)
            => callLog' = callLog
       /\ (lsPc = "li_bgi" /\ lastLogin = lsUid /\ bgi = lsUid)
            => bgi' = bgi]_vars

\* C13: an OnLogin whose push connect failed has, for a non-empty
\* identity, still started the chat sub-loops and the background
\* identifier and launched the self-identify when it returns.
C13_PushFailureContained ==
    (lsPc = "li_ret" /\ lsErr = "gregor.Connect" /\ uid # NoUID) =>
        /\ Len(callLog) >= Len(LoginTail(uid))
        /\ SubSeq(callLog, Len(callLog) - Len(LoginTail(uid)) + 1,
                  Len(callLog)) = LoginTail(uid)

\* C14: however many Shutdown calls are made, and wherever the task is,
\* the cancellation signal is closed at most once, the task stops only
\* after a Shutdown, and once stopped it stays stopped.
C14_ShutdownIdempotent ==
    /\ [](/\ tCloses <= 1
          /\ tShut => tCloses = 1
          /\ tPc = "stopped" => tShut)
    /\ [][tPc = "stopped" => tPc' = "stopped"]_vars

\* every run of the hooks has called Shutdown, the first during a round
C14_Witness ==
    /\ \A r \in Runners : rPc[r] = "done"
    /\ tShutAt = "round"
    /\ tPc = "stopped"
    /\ tCloses = 1

\* C15: when the first Shutdown comes before the engine's Run or before the
\* start delay has elapsed, no round is ever started.
C15_EarlyShutdownNoRound ==
    tShutAt \in {"spawned", "startWait"} => tRounds = 0 /\ tPc # "round"

\* the hook ran first, the engine's goroutine afterwards
C15_Witness ==
    /\ tShutAt = "spawned"
    /\ tPc = "stopped"
    /\ tRounds = 0

\* C16: at most one wake request is pending; a sleep that finds one ends
\* at once in a round started by it, which uses it up, so that no second
\* round follows without a new request or the interval.
C16_WakeCoalesced ==
    /\ [](tWake <= 1)
    /\ [][(tPc = "sleep" /\ tWake > 0 /\ tPc' # tPc) =>
             \/ tPc' = "round" /\ tReason' = "wake" /\ tWake' = 0
             \/ tShut /\ tPc' = "stopped"]_vars
    /\ [][(tPc = "round" /\ tWake > 0 /\ tPc' # tPc) =>
             tPc' = "sleep" /\ tWake' = tWake]_vars

\* two requests were made before the second round, which a wake started
C16_Witness ==
    /\ tPc = "round"
    /\ tRounds = 2
    /\ tReason = "wake"
    /\ tWakeReqs = 2
    /\ tWake = 0

C18_StartupReachesAcceptLoop ==
    (\E i \in 1..Len(startupLog) : startupLog[i] = "SetupCriticalSubServices")
        ~> (listenPc # "none")

\* C19: a handler is started only by the accept loop while it is accepting,
\* and never twice for one connection; the loop leaves at the first Accept
\* error, with nil when the listener was closed and with the error
\* otherwise, and no handler is started afterwards.
C19_ListenLoopResult ==
    /\ [](/\ listenErr \in {"nil", "accept"}
          /\ listenPc \in {"none", "accept"} => listenErr = "nil"
          /\ (listenPc \in {"sending", "exited"} /\ listenErr = "nil")
                => listener = "closed")
    /\ [][listenPc # "accept" =>
            \A c \in Conns : hPc[c] = "none" => hPc'[c] = "none"]_vars
    /\ [][\A c \in Conns :
            hPc[c] \notin {"none", "start"} => hPc'[c] # "start"]_vars

\* the loop left on 'listener closed' after it had started a handler
C19_Witness ==
    /\ listenPc = "exited"
    /\ listenErr = "nil"
    /\ listener = "closed"
    /\ \E c \in Conns : hPc[c] = "done"

\* C20: while the server runs, the step that ends the serve loop and sends
\* the error can be taken (the send does not block); once the serve loop
\* has ended the channel holds the server's terminal error, once, also
\* when Handle has returned; a connection that was never served gets none.
C20_TerminalErrorDelivered ==
    \A c \in Conns :
        /\ Len(cl[c]) <= 1
        /\ hPc[c] = "serve" => ENABLED ServeEnds(c)
        /\ (served[c] /\ hPc[c] \in {"defer", "deferBody", "done"})
              => Len(cl[c]) = 1 /\ cl[c][1] \in {"EOF", "neterr"}
        /\ ~served[c] => cl[c] = <<>>

\* Handle has returned after a clean end of the serve loop
C20_Witness ==
    \E c \in Conns :
        /\ hPc[c] = "done"
        /\ served[c]
        /\ cl[c] = <<"EOF">>

\* the place of a hook's kind in the order of the list
HookRank(h) ==
    IF h[1] = "lock" THEN 1
    ELSE IF h[1] = "hourly" THEN 2
    ELSE IF h[1] = "puk" THEN 3
    ELSE 4

\* the positions of the list that hold hook h
HookPositions(h) == {i \in 1..Len(hooks) : hooks[i] = h}

\* C21: the hook list holds, each at most once and in this order, the lock
\* release (present once the lock is held), the hourly-tick cancellation,
\* the per-user-key task shutdown and then one cleanup hook per connection
\* whose handler has registered it; a run of the hooks invokes them in
\* insertion order, each once, and has invoked all of them when it ends.
C21_HooksInInsertionOrder ==
    /\ [](/\ \A i, j \in 1..Len(hooks) :
                i < j => /\ HookRank(hooks[i]) <= HookRank(hooks[j])
                         /\ hooks[i] # hooks[j]
          /\ (\E i \in 1..Len(startupLog) : startupLog[i] = "GetExclusiveLock")
                <=> HookPositions(<<"lock", 0>>) # {}
          /\ \A c \in Conns :
                hPc[c] \notin {"none", "start", "push"}
                    <=> HookPositions(<<"conn", c>>) # {}
          /\ \A r \in Runners : IsPrefix(rCalls[r], hooks))
    /\ [][\A r \in Runners :
            (rPc[r] # "done" /\ rPc'[r] = "done") => rCalls'[r] = hooks']_vars

\* a run has ended after the lock, hourly, per-user-key and one connection's
\* hook, in that order
C21_Witness ==
    \E r \in Runners :
        /\ rPc[r] = "done"
        /\ rCalls[r] = <<<<"lock", 0>>, <<"hourly", 0>>, <<"puk", 0>>,
                         <<"conn", 1>>>>
        /\ hooks = rCalls[r]

\* C22: the start channel is closed at most once; it is closed when the
\* socket is bound, and otherwise when Run has returned, whichever step
\* failed; before either it is open.
C22_StartChClosedOnce ==
    /\ startChCloses <= 1
    /\ startCh = "closed" <=> startChCloses = 1
    /\ listener # "none" => startChCloses = 1
    /\ runPc = "done" => startChCloses = 1
    /\ (listener = "none" /\ runPc # "done") => startChCloses = 0

\* Run has returned after a Stop: the bind closed the channel and the
\* deferred function found the field nil
C22_Witness ==
    /\ runPc = "done"
    /\ exitCode # "none"
    /\ listener = "closed"
    /\ startChNil
    /\ startChCloses = 1

\* the Stop callers whose send was received
Consumed == {s \in Stoppers : stopPc[s] = "returned"}

\* C23: at most one Stop is consumed in a run; the code Run records in the
\* global context is the code that Stop call passed, it is recorded when
\* ListenLoopWithStopper returns, and a Run that returned without a Stop
\* records none.
C23_ExitCodeIsStopCode ==
    /\ Cardinality(Consumed) <= 1
    /\ Consumed = {} <=> exitCode = "none"
    /\ \A s \in Consumed : exitCode = stopCode[s] /\ exitCode \in ExitCodes
    /\ gExitCode \in {"none", exitCode}
    /\ Returned => gExitCode = exitCode
    /\ (runPc = "done" /\ Consumed = {}) => gExitCode = "none"

\* Run has returned with the restart code of one Stop while another Stop,
\* with the normal code, was never received
C23_Witness ==
    /\ runPc = "done"
    /\ gExitCode = "RESTART"
    /\ \E s, t \in Stoppers :
          /\ stopPc[s] = "returned" /\ stopCode[s] = "RESTART"
          /\ stopPc[t] = "sending" /\ stopCode[t] = "OK"

\* C24: every call of Stop eventually returns to its caller, whenever it is
\* made.
C24_StopReturns ==
    \A s \in Stoppers : (stopPc[s] = "sending") ~> (stopPc[s] = "returned")

\* C25: tryGregordConnect calls gregordConnect exactly when the login-state
\* check returns no error and logged-in, or a network error; with no error
\* and not logged in it returns nil without the call, and with another
\* error it returns that error without the call.
C25_TryGregordConnect ==
    /\ tgc.called <=> gregorInit
    /\ tgc.called =>
          /\ cfg.push # "disabled"
          /\ tgc.connect <=> \/ cfg.check.err = "nil" /\ cfg.check.loggedIn
                             \/ cfg.check.err = "net"
          /\ (cfg.check.err = "nil" /\ ~cfg.check.loggedIn)
                => ~tgc.connect /\ tgc.ret = "nil"
          /\ cfg.check.err = "other" => ~tgc.connect /\ tgc.ret = "other"
          /\ ~tgc.connect => ~gregorConn
          /\ tgc.connect => (gregorConn <=> tgc.ret = "nil")

\* the check returned a network error and not logged in, and the push
\* connection was made
C25_Witness ==
    /\ tgc.called
    /\ cfg.check = [loggedIn |-> FALSE, err |-> "net"]
    /\ tgc.connect
    /\ gregorConn

\* C26: when Handle has returned, the connection's close channel, which
\* Handle gave to the notify router at its start, holds a terminal error,
\* also when the protocol registration failed.
C26_ClosedConnectionNotified ==
    \A c \in Conns : hPc[c] = "done" => Len(cl[c]) = 1

\* C27: after the accept loop has left on an error other than 'listener
\* closed', and until a Stop is received, Run waits for Stop with no error
\* and no exit code recorded, the listener stays open, the accept-loop
\* goroutine stays at the send of its result and no connection is
\* accepted; Run returns that error only with the exit code of a Stop.
C27_AcceptErrorHeldUntilStop ==
    /\ []((listenErr = "accept" /\ exitCode = "none") =>
             /\ runPc = "stopWait"
             /\ runErr = "nil" /\ gExitCode = "none"
             /\ listener = "open" /\ listenerCloses = 0
             /\ listenPc = "sending")
    /\ [](listenErr = "accept" => listenPc \in {"sending", "exited"})
    /\ [](runErr = "accept" =>
             /\ exitCode \in ExitCodes /\ gExitCode = exitCode
             /\ listenPc = "exited")
    /\ [][listenErr = "accept" =>
            \A c \in Conns : hPc[c] = "none" => hPc'[c] = "none"]_vars

\* Run has returned the Accept error together with the restart code of
\* the Stop that ended the wait
C27_Witness ==
    /\ runPc = "done"
    /\ runErr = "accept"
    /\ gExitCode = "RESTART"
    /\ listener = "closed"

\* C28: when push is disabled at startup, so that startupGregor neither
\* initialises the push client nor installs a reachability monitor, no
\* OnLogin or OnLogout made once the service is installed as login and
\* logout hook calls Connect on the push client.
C28_DisabledPushNeverConnects ==
    (cfg.push = "disabled" /\ hooksAdded) =>
        /\ ~gregorInit
        /\ \A i \in 1..Len(callLog) : callLog[i] # <<"Connect", "gregor">>

\* the call was made by the current OnLogin
Called(ev) == \E i \in 1..Len(callLog) : callLog[i] = ev

\* C29: when OnLogin's gregordConnect has returned, Reset was called
\* exactly when the client was connected and then before Connect; a failed
\* Reset is the error returned and no Connect was called; an unparsable
\* URI is returned before either call; a Connect error is returned.
C29_GregordConnectResets ==
    lsPc \in {"li_uid", "li_chat", "li_bgi", "li_identify", "li_ret"} =>
        /\ Called(<<"Reset", "gregor">>) <=> lsReset # "none"
        /\ Called(<<"Reset", "gregor">>) => callLog[2] = <<"Reset", "gregor">>
        /\ lsReset = "failed" =>
              lsErr = "gregor.Reset" /\ ~Called(<<"Connect", "gregor">>)
        /\ lsErr = "ParseFMPURI" =>
              ~Called(<<"Reset", "gregor">>) /\ ~Called(<<"Connect", "gregor">>)
        /\ lsErr = "gregor.Connect" => Called(<<"Connect", "gregor">>)

\* the startup step has been executed to its end
Completed(step) == \E i \in 1..Len(startupLog) : startupLog[i] = step

\* C30: a Run that failed to acquire the exclusive lock has not rewritten
\* the runtime info file, has not removed the socket file and has pushed
\* no lock-release hook.
C30_LockFailureChangesNothing ==
    failedStep = "GetExclusiveLock" =>
        /\ ~Completed("writeServiceInfo")
        /\ ~Completed("cleanupSocketFile")
        /\ hooks = <<>>

\* C31: a caller that obtained the start channel from GetStartChannel, at
\* whatever moment, and waits on it is eventually released.
C31_StartChannelWaiterReleased == (wPc = "waiting") ~> (wPc = "released")

\* the connections whose Handle has pushed its cleanup closure
Pushed == {c \in Conns : hPc[c] \notin {"none", "start", "push"}}

\* the entries of the hook list that are connection cleanups
ConnEntries == SelectSeq(hooks, LAMBDA h : h[1] = "conn")

\* C32: the hook list holds one cleanup entry for each connection whose
\* Handle has pushed one, also after the Handle has returned; no entry of
\* the list is ever removed or moved; and when a run of the hooks invokes
\* the entry of a connection whose Handle has returned, no handler is shut
\* down and the closure's body does not run.
C32_OneHookPerHandle ==
    /\ [](/\ Len(ConnEntries) = Cardinality(Pushed)
          /\ \A c \in Pushed : Cardinality(HookPositions(<<"conn", c>>)) = 1)
    /\ [][IsPrefix(hooks, hooks')]_vars
    /\ [][\A r \in Runners :
            (/\ rCalls'[r] # rCalls[r]
             /\ RunnerHook(r)[1] = "conn"
             /\ hPc[RunnerHook(r)[2]] = "done")
                => /\ bodyRuns' = bodyRuns
                   /\ shutdownCalls' = shutdownCalls
                   /\ onceState' = onceState]_vars

\* one run of the hooks has ended after invoking every entry, and another
\* is at the entry of a served connection whose Handle has returned and
\* whose closure ran once
C32_Witness ==
    \E c \in Conns :
        /\ hPc[c] = "done" /\ served[c]
        /\ ConnEntries = <<<<"conn", c>>>>
        /\ bodyRuns[c] = 1
        /\ \E r, q \in Runners :
              /\ rPc[r] = "done" /\ rCalls[r] = hooks
              /\ rPc[q] = "iter" /\ rIdx[q] <= Len(hooks)
              /\ RunnerHook(q) = <<"conn", c>>

\* the upgrade is due: enabled, not known to be offline, and the local
\* check found no keys
UpgradeDue(in) ==
    /\ in.enabled
    /\ in.connected # "no"
    /\ in.ringErr \/ ~in.hasKeys

\* C33: a call of PerUserKeyBackgroundRound has run the upgrade engine
\* exactly when the upgrade was due, and then returns the engine's error;
\* in every other case it returns nil.
C33_UpgradeRoundRunsWhenDue ==
    tUnit.called =>
        /\ tUnit.ran <=> UpgradeDue(tUnit.in)
        /\ tUnit.ran => tUnit.ret = tUnit.in.upgrade
        /\ ~tUnit.ran => tUnit.ret = "nil"
        /\ tResult = "ok" <=> tUnit.ret = "nil"

\* the keyring failed to load while connectivity was unknown; the upgrade
\* was run and its error ended the second round
C33_Witness ==
    /\ tUnit.called
    /\ tRounds = 2
    /\ tUnit.in.ringErr
    /\ tUnit.in.connected = "unknown"
    /\ tUnit.ran
    /\ tUnit.ret = "upgradeErr"
    /\ tResult = "err"

====
